---- MODULE Spec2Model ----
(***************************************************************************)
(* Session-backed authentication of the forum backend.                     *)
(*                                                                         *)
(* The repository carries three implementations of the session subsystem,  *)
(* each written against its own `sessions` table:                          *)
(*   "part_003"      table sessions(id, user_id, uuid UNIQUE, expires_at)  *)
(*                   used by repository/session_repository.go,             *)
(*                   middleware/auth.go and handlers/auth_handlers.go;     *)
(*   "migration_001" table sessions(user_id PRIMARY KEY, session_token     *)
(*                   UNIQUE, created_at, expires_at) used by the           *)
(*                   upsert repository (unnamed/part_010), the JWT-only    *)
(*                   middleware (unnamed/part_001) and the handlers of     *)
(*                   unnamed/part_021 that routes/router.go wires;         *)
(*   "InitDB"        table sessions(id, user_id, session_token UNIQUE,     *)
(*                   expires_at) used by the cookie handlers of            *)
(*                   handlers/auth.go.                                     *)
(* The statements of one implementation name columns the other tables do   *)
(* not have, so each operation is enabled only on its own table.           *)
(*                                                                         *)
(* Time is counted in ticks, TicksPerSec ticks to the second: time.Now()   *)
(* has sub-second resolution while a JWT "exp" is a whole number of        *)
(* seconds.  uuid.New() and crypto/rand are modelled as a source of fresh  *)
(* identifiers, HMAC-SHA256 as an unforgeable keyed function whose output  *)
(* travels base64url-encoded in the token's third segment.                 *)
(***************************************************************************)
EXTENDS Integers, FiniteSets, Sequences, TLC

\* ---------------------------------------------------------------- bounds
MaxUsers == 2
MaxUUID == 3
MaxLogins == 2
MaxTime == 4
MaxTokens == 2
NumCalls == 2
SigLen == 2
TicksPerSec == 2
\* models.NewSession: 24 * time.Hour, scaled down to seconds of model time
TTLSeconds == 2
MaxEmails == 2
MaxNames == 2
MaxPasswords == 1
\* bcrypt reads at most 72 bytes of a password, scaled down
BcryptMaxLen == 2
MaxUserID == 2
MaxParts == 3
MaxEntity == 2
MaxPosts == 2
MaxCategories == 2
MaxTitles == 2

Users == 1..MaxUsers
UUIDs == 1..MaxUUID
Calls == 1..NumCalls
Emails == 1..MaxEmails
Names == 1..MaxNames
\* the passwords users register with: strings as long as bcrypt reads
Passwords == [1..BcryptMaxLen -> 1..MaxPasswords]
\* the passwords a login may try: those in use and one that no user has
Attempts ==
    [1..BcryptMaxLen -> 1..(MaxPasswords + 1)]
        \cup [1..(BcryptMaxLen + 1) -> 1..(MaxPasswords + 1)]
SessionTTL == TTLSeconds * TicksPerSec

Schemas == {"part_003", "migration_001", "InitDB"}

VARIABLES
    schema,       \* which CREATE TABLE sessions statement built the database
    now,          \* the wall clock, in ticks
    sessions,     \* committed rows of the sessions table
    nextUUID,     \* next fresh identifier handed out by uuid.New / rand.Read
    tokens,       \* JWTs handed to clients so far
    resp,         \* outcome of the request handled by the last step
    writeLock,    \* CreateSession call holding SQLite's write lock, 0 when free
    calls,        \* position of each in-flight CreateSession transaction
    commitLog,    \* history: <<user, identifier>> of every committed create, in order
    loggedOut,    \* history: the token whose holder last completed a logout
    unswept,      \* history: the table as it would be had the sweep never run
    storeDown,    \* the database connection is failing
    reqs,         \* requests in flight: gate, credential, context value, what the handler read
    users,        \* committed rows of the users table
    nextUserID,   \* next AUTOINCREMENT value of users.id
    creates,      \* position of each in-flight UserRepositoryImpl.Create
    ures,         \* outcome of the last user repository call
    passwordOf,   \* history: the password each user id was created with
    extracted,    \* the last token extraction: header, cookie, token, error
    interactions, \* rows of the table that holds likes and dislikes
    reaction,     \* outcome of the last like, dislike, remove or count
    posts,        \* committed rows of the posts table
    post_categories, \* committed rows of the post_categories table
    nextPostID,   \* next AUTOINCREMENT value of posts.id
    posted        \* outcome of the last post repository or handler call


\* what the session operations of a healthy store never touch
\* the users table and the calls on it
userVars == <<users, nextUserID, creates, ures, passwordOf>>

\* what the handlers behind the gate work on
postVars == <<posts, post_categories, nextPostID, posted>>

webVars == <<extracted, interactions, reaction, postVars>>

others == <<storeDown, reqs, userVars, webVars>>

vars == <<schema, now, sessions, nextUUID, tokens, resp, writeLock, calls,
          commitLog, loggedOut, unswept, others>>

\* ------------------------------------------------------------ the table
Row(u, id, exp) == [user_id |-> u, uuid |-> id, expires_at |-> exp]

UserRows(S, u) == {r \in S : r.user_id = u}

NoSession == Row(0, 0, 0)

\* what the history keeps of a committed row
Entry(r) == [user_id |-> r.user_id, uuid |-> r.uuid]

\* a session row that belongs to another user than the one logging in
NewSessionOfOther(userID) ==
    Row((userID % MaxUsers) + 1, nextUUID, now + SessionTTL)

\* models.NewSession
NewSession(userID) == Row(userID, nextUUID, now + SessionTTL)

\* SessionRepository.ValidateSession: WHERE uuid = ? AND expires_at > now;
\* session_repository.go refuses the empty identifier before the query
ErrEmptyUUID == [ok |-> FALSE, err |-> "empty session UUID", session |-> NoSession]
ErrInvalidSession == [ok |-> FALSE, err |-> "invalid or expired session", session |-> NoSession]

\* the same query with the expiry condition left out
ValidateSessionAnyExpiry(sessionUUID) ==
    LET hit == {r \in sessions : r.uuid = sessionUUID}
    IN  IF hit = {} THEN ErrInvalidSession
        ELSE [ok |-> TRUE, err |-> "", session |-> CHOOSE r \in hit : TRUE]

\* the query of ValidateSession run against table S
ValidateSessionIn(S, sessionUUID) ==
    LET hit == {r \in S : r.uuid = sessionUUID /\ r.expires_at > now}
    IN  IF hit = {} THEN ErrInvalidSession
        ELSE [ok |-> TRUE, err |-> "", session |-> CHOOSE r \in hit : TRUE]

\* QueryRow(...).Scan fails with an error other than sql.ErrNoRows, which
\* ValidateSession returns as it is
ErrStore == [ok |-> FALSE, err |-> "sql: database is closed", session |-> NoSession]

ValidateSession(sessionUUID) ==
    IF schema = "part_003" /\ sessionUUID = 0 THEN ErrEmptyUUID
    ELSE IF storeDown THEN ErrStore
    ELSE ValidateSessionIn(sessions, sessionUUID)

\* -------------------------------------------------------------- tokens
SecretKey == "secret"
AttackerKey == "attacker"

\* header.payload, the string the signature is computed over
SigningInput(alg, u, sid, exp) == <<alg, u, sid, exp>>

\* HMAC-SHA256 as an ideal keyed function: the MAC bytes of (key, input);
\* diff > 0 stands for those bytes with byte `diff` changed
HS256(key, input) == [key |-> key, input |-> input, diff |-> 0]

\* the third segment of the token: base64.RawURLEncoding of the MAC bytes.
\* A client can overwrite the character at `pos`: "data" changes bits that
\* carry the MAC, "padding" changes only the unused low bits of the last
\* character, "illegal" puts a character outside the base64url alphabet
EncodeSegment(mac) == [mac |-> mac, pos |-> 0, kind |-> "none"]

\* Parser.DecodeSegment: RawURLEncoding without Strict(), so the unused bits
\* of the last character are ignored
DecodeSegment(seg) ==
    IF seg.kind = "illegal" THEN [ok |-> FALSE, bytes |-> seg.mac]
    ELSE IF seg.kind = "data" THEN [ok |-> TRUE, bytes |-> [seg.mac EXCEPT !.diff = seg.pos]]
    ELSE [ok |-> TRUE, bytes |-> seg.mac]

NoSig == EncodeSegment([key |-> "", input |-> <<"", 0, 0, 0>>, diff |-> 0])

\* the ways to overwrite one character of a signature of SigLen characters
Alterations ==
    {[pos |-> i, kind |-> k] : i \in 1..SigLen, k \in {"data", "illegal"}}
      \cup {[pos |-> SigLen, kind |-> "padding"]}

\* jwt.NewWithClaims(jwt.SigningMethodHS256, claims) then token.SignedString(key)
SignedString(u, sid, exp, key) ==
    [form |-> "jwt", alg |-> "HS256", user_id |-> u, session_id |-> sid,
     exp |-> exp, sig |-> EncodeSegment(HS256(key, SigningInput("HS256", u, sid, exp)))]

\* an empty Authorization header and no cookie
NoCredential ==
    [form |-> "absent", alg |-> "", user_id |-> 0, session_id |-> 0, exp |-> 0,
     sig |-> NoSig]

\* a string that is not three base64url segments
Garbage == [NoCredential EXCEPT !.form = "garbage"]

\* time.Now().Add(24h).Unix() and jwt.NewNumericDate: whole seconds
Unix(t) == t \div TicksPerSec

\* method.Verify(signingInput, signature, key) of the token's own alg
SignatureOK(tok, key) ==
    /\ tok.alg = "HS256"
    /\ DecodeSegment(tok.sig).ok
    /\ DecodeSegment(tok.sig).bytes =
           HS256(key, SigningInput(tok.alg, tok.user_id, tok.session_id, tok.exp))

\* an expiry check that lets a token live one more second
ExpiresAtWithLeeway(tok) == now < (tok.exp + 1) * TicksPerSec

\* jwt/v5 Validator.verifyExpiresAt: now.Before(exp), no leeway
ExpiresAtOK(tok) == now < tok.exp * TicksPerSec

\* jwt/v5 Parser.ParseWithClaims: structure, signature segment, keyfunc,
\* signature, then claims
JwtParse(tok, key, keyfuncChecksMethod) ==
    IF tok.form # "jwt" THEN "ErrTokenMalformed"
    ELSE IF ~DecodeSegment(tok.sig).ok THEN "ErrTokenMalformed"
    ELSE IF keyfuncChecksMethod /\ tok.alg # "HS256" THEN "ErrTokenUnverifiable"
    ELSE IF ~SignatureOK(tok, key) THEN "ErrTokenSignatureInvalid"
    ELSE IF ~ExpiresAtOK(tok) THEN "ErrTokenExpired"
    ELSE "nil"

\* what a client can put on the wire, built from the tokens it has seen
Tampered(t) ==
    {[t EXCEPT !.sig.pos = a.pos, !.sig.kind = a.kind] : a \in Alterations}
      \cup {[t EXCEPT !.user_id = u] : u \in Users \ {t.user_id}}
      \cup {[t EXCEPT !.session_id = s] : s \in UUIDs \ {t.session_id}}
      \cup {[t EXCEPT !.exp = t.exp + 1]}
      \cup {SignedString(t.user_id, t.session_id, t.exp + 1, AttackerKey)}
      \cup {[t EXCEPT !.alg = "none", !.sig = NoSig]}

Credentials ==
    {NoCredential, Garbage} \cup tokens \cup UNION {Tampered(t) : t \in tokens}

\* ------------------------------------------------------------- responses
Resp(op, cred, status, called, user, err) ==
    [op |-> op, cred |-> cred, status |-> status, called |-> called,
     user |-> user, err |-> err]

NoResp == Resp("none", NoCredential, 0, FALSE, 0, "")

IdleCall == [pc |-> "idle", user |-> 0, deleted |-> {}, session |-> NoSession]

\* the result of GetUserIDFromContext
Identity(id, ok) == [id |-> id, ok |-> ok]

IdleReq ==
    [pc |-> "idle", gate |-> "", cred |-> NoCredential, ctx |-> 0,
     seen |-> Identity(0, FALSE)]

\* a row of the users table; password holds the stored verifier
UserRow(id, username, email, password) ==
    [id |-> id, username |-> username, email |-> email, password |-> password]

\* a password as the request carries it
Plain(password) == [kind |-> "plain", of |-> password, salt |-> 0]

\* the empty string left in user.Password
Empty == [kind |-> "empty", of |-> <<>>, salt |-> 0]

NoUser == UserRow(0, 0, 0, Empty)

\* an in-flight Create: the user it was given (ID and Password as Create
\* leaves them) and the error it returned
IdleCreate == [pc |-> "idle", user |-> NoUser, err |-> ""]

\* what a user repository call returned, and the status Login answers with
Result(op, email, ok, err, user, status) ==
    [op |-> op, email |-> email, ok |-> ok, err |-> err, user |-> user,
     status |-> status]

NoResult == Result("none", 0, FALSE, "", NoUser, 0)

\* a cookie named token, or none
Cookie(present, value) == [present |-> present, value |-> value]

\* what a token extraction was given and what it returned; a string is kept
\* as the sequence of its parts between single spaces
Extraction(impl, header, cookie, token, err) ==
    [impl |-> impl, header |-> header, cookie |-> cookie, token |-> token,
     err |-> err]

NoExtraction == Extraction("none", <<"">>, Cookie(FALSE, ""), <<"">>, "")

\* a row of the interactions table; type is "like" or "dislike"
Interaction(user_id, entity_id, entity_type, type) ==
    [user_id |-> user_id, entity_id |-> entity_id, entity_type |-> entity_type,
     type |-> type]

\* what a like, dislike, remove or count was asked and what it answered
Reaction(op, user, entity_id, entity_type, type, status, added, err, l, d) ==
    [op |-> op, user |-> user, entity_id |-> entity_id,
     entity_type |-> entity_type, type |-> type, status |-> status,
     added |-> added, err |-> err, likes |-> l, dislikes |-> d]

NoReaction == Reaction("none", 0, 0, "", "", 0, FALSE, "", 0, 0)

\* what a post operation was asked and what it answered
Posted(op, user, post, status, err) ==
    [op |-> op, user |-> user, post |-> post, status |-> status, err |-> err]

NoPosted == Posted("none", 0, 0, 0, "")

\* the state of a database the schema has just been applied to
InitState ==
    /\ now = 0
    /\ sessions = {}
    /\ nextUUID = 1
    /\ tokens = {}
    /\ resp = NoResp
    /\ writeLock = 0
    /\ calls = [p \in Calls |-> IdleCall]
    /\ commitLog = <<>>
    /\ loggedOut = NoCredential
    /\ unswept = {}
    /\ storeDown = FALSE
    /\ reqs = [p \in Calls |-> IdleReq]
    /\ users = {}
    /\ nextUserID = 1
    /\ passwordOf = [id \in 1..MaxUserID |-> <<>>]
    /\ extracted = NoExtraction
    /\ interactions = {}
    /\ reaction = NoReaction
    /\ creates = [p \in Calls |-> IdleCreate]
    /\ ures = NoResult
    /\ posts = {}
    /\ post_categories = {}
    /\ nextPostID = 1
    /\ posted = NoPosted

Init ==
    /\ schema \in Schemas
    /\ InitState

\* the clock advances
Tick ==
    /\ now < MaxTime
    /\ now' = now + 1
    /\ resp' = NoResp
    /\ UNCHANGED <<others, schema, sessions, unswept, nextUUID, tokens,
                   writeLock, calls, commitLog, loggedOut>>

\* ---- repository/session_repository.go + middleware/auth.go ("part_003")

\* the INSERT without the DELETE before it
AppendSession(S, r) == S \cup {r}

\* a DELETE without its WHERE clause before the INSERT
ReplaceAllSessions(S, r) == {r}

\* the table after CreateSession's transaction: DELETE WHERE user_id, INSERT
ReplaceSession(S, r) == (S \ UserRows(S, r.user_id)) \cup {r}

\* AuthMiddleware.GenerateToken: CreateSession(user.ID), then the claims
\* {user_id, session_id, exp: time.Now().Add(24h).Unix()} are signed; d ticks
\* pass between NewSession's time.Now() and GenerateToken's
GenerateToken(u, d) ==
    /\ schema = "part_003"
    /\ nextUUID <= MaxLogins
    /\ now + d <= MaxTime
    /\ LET r == NewSession(u)
           tok == SignedString(u, r.uuid, Unix(now + d + SessionTTL), SecretKey)
       IN  /\ sessions' = ReplaceSession(sessions, r)
           /\ unswept' = ReplaceSession(unswept, r)
           /\ commitLog' = Append(commitLog, Entry(r))
           /\ tokens' = tokens \cup {tok}
           /\ resp' = Resp("GenerateToken", tok, 200, FALSE, u, "")
    /\ nextUUID' = nextUUID + 1
    /\ now' = now + d
    /\ UNCHANGED <<others, schema, writeLock, calls, loggedOut>>

\* SessionRepository.DeleteSession: the empty identifier is refused, else
\* DELETE FROM sessions WHERE uuid = ? and the statement's error is returned
DeleteSession(sessionUUID) ==
    /\ schema = "part_003"
    /\ writeLock = 0
    /\ sessions' = {r \in sessions : r.uuid # sessionUUID}
    /\ unswept' = {r \in unswept : r.uuid # sessionUUID}
    /\ resp' = Resp("DeleteSession", [NoCredential EXCEPT !.session_id = sessionUUID],
                    0, FALSE, 0,
                    IF sessionUUID = 0 THEN ErrEmptyUUID.err ELSE "")
    /\ UNCHANGED <<others, schema, now, nextUUID, tokens, writeLock, calls,
                   commitLog, loggedOut>>

\* a sweep that also takes the rows expiring at the next tick
ExpiredByNextTick(S) == {r \in S : r.expires_at <= now + 1}

\* rows the sweep deletes: WHERE expires_at <= now
Expired(S) == {r \in S : r.expires_at <= now}

\* SessionRepository.CleanupExpiredSessions: one DELETE statement, which
\* needs the write lock
CleanupExpiredSessions ==
    /\ schema = "part_003"
    /\ writeLock = 0
    /\ sessions' = sessions \ Expired(sessions)
    /\ unswept' = unswept
    /\ resp' = Resp("CleanupExpiredSessions", NoCredential, 0, FALSE, 0, "")
    /\ UNCHANGED <<others, schema, now, nextUUID, tokens, writeLock, calls,
                   commitLog, loggedOut>>

\* a caller asks SessionRepository.ValidateSession about an identifier
ValidateSessionCall(sessionUUID) ==
    /\ schema \in {"part_003", "migration_001"}
    /\ LET res == ValidateSession(sessionUUID) IN
        resp' = Resp("ValidateSession",
                     [NoCredential EXCEPT !.session_id = sessionUUID],
                     0, FALSE, res.session.user_id, res.err)
    /\ UNCHANGED <<others, schema, now, sessions, unswept, nextUUID, tokens,
                   writeLock, calls, commitLog, loggedOut>>

\* AuthMiddleware.ProtectRoute of middleware/auth.go, for one request
ProtectRoute(cred) ==
    LET err == JwtParse(cred, SecretKey, TRUE) IN
    IF cred.form = "absent"
      THEN Resp("ProtectRoute", cred, 401, FALSE, 0, "Missing authorization token")
    ELSE IF err # "nil"
      THEN Resp("ProtectRoute", cred, 401, FALSE, 0, err)
    ELSE IF cred.user_id = 0
      THEN Resp("ProtectRoute", cred, 401, FALSE, 0, "Invalid user ID in token")
    ELSE IF cred.session_id = 0
      THEN Resp("ProtectRoute", cred, 401, FALSE, 0, "Invalid session ID in token")
    ELSE IF ~ValidateSession(cred.session_id).ok
      THEN Resp("ProtectRoute", cred, 401, FALSE, 0, "Invalid session")
    ELSE Resp("ProtectRoute", cred, 200, TRUE, cred.user_id, "nil")

\* the stages ProtectRoute of middleware/auth.go takes a request through:
\* header read, jwt.Parse and the claims, ValidateSession, context value set
ProtectRouteStates(cred) ==
    IF cred.form = "absent"
      THEN <<"Unauthenticated", "Rejected">>
    ELSE IF JwtParse(cred, SecretKey, TRUE) # "nil"
      THEN <<"Unauthenticated", "TokenExtracted", "Rejected">>
    ELSE IF cred.user_id = 0 \/ cred.session_id = 0
                             \/ ~ValidateSession(cred.session_id).ok
      THEN <<"Unauthenticated", "TokenExtracted", "SignatureVerified", "Rejected">>
    ELSE <<"Unauthenticated", "TokenExtracted", "SignatureVerified",
           "SessionConfirmed", "Authenticated">>

\* a request to a route wrapped by ProtectRoute
ProtectedRequest(cred) ==
    /\ schema = "part_003"
    /\ resp' = ProtectRoute(cred)
    /\ UNCHANGED <<others, schema, now, sessions, unswept, nextUUID, tokens,
                   writeLock, calls, commitLog, loggedOut>>

\* AuthHandler.Logout of handlers/auth_handlers.go behind the gate: it reads
\* the user id from the context and answers 200; the store is not touched
Logout(cred) ==
    /\ schema = "part_003"
    /\ LET gate == ProtectRoute(cred) IN
        /\ resp' = [gate EXCEPT !.op = "Logout"]
        /\ loggedOut' = IF gate.called THEN cred ELSE loggedOut
    /\ UNCHANGED <<others, schema, now, sessions, unswept, nextUUID, tokens,
                   writeLock, calls, commitLog>>

\* ---- unnamed/part_010 + part_001 + part_021 ("migration_001")

\* the table after INSERT ... ON CONFLICT(user_id) DO UPDATE
UpsertSession(S, r) == (S \ UserRows(S, r.user_id)) \cup {r}

\* SessionRepository.CreateSession(user) of part_010
CreateSessionUpsert(u) ==
    /\ schema = "migration_001"
    /\ nextUUID <= MaxLogins
    /\ LET r == NewSession(u) IN
        /\ sessions' = UpsertSession(sessions, r)
        /\ unswept' = UpsertSession(unswept, r)
        /\ commitLog' = Append(commitLog, Entry(r))
        /\ resp' = Resp("CreateSession", [NoCredential EXCEPT !.session_id = r.uuid],
                        0, FALSE, u, "")
    /\ nextUUID' = nextUUID + 1
    /\ UNCHANGED <<others, schema, now, tokens, writeLock, calls, loggedOut>>

\* a DELETE that lost its WHERE clause
DeleteWhereAny(S, u) == {}

\* DELETE FROM sessions WHERE user_id = ?
DeleteWhereUser(S, u) == S \ UserRows(S, u)

\* SessionRepository.InvalidateSession(userID) of part_010: the DELETE, and
\* the statement's error is returned
InvalidateSession(u) ==
    /\ schema = "migration_001"
    /\ sessions' = DeleteWhereUser(sessions, u)
    /\ unswept' = DeleteWhereUser(unswept, u)
    /\ resp' = Resp("InvalidateSession", [NoCredential EXCEPT !.user_id = u],
                    0, FALSE, u, "")
    /\ UNCHANGED <<others, schema, now, nextUUID, tokens, writeLock, calls,
                   commitLog, loggedOut>>

\* generateToken of part_001: claims {user_id, username, exp, iat}, no session
generateToken(u) == SignedString(u, 0, Unix(now + SessionTTL), SecretKey)

\* AuthHandler.Login of part_021 after a successful Authenticate
LoginJWT(u) ==
    /\ schema = "migration_001"
    /\ LET tok == generateToken(u) IN
        /\ tok \in tokens \/ Cardinality(tokens) < MaxTokens
        /\ tokens' = tokens \cup {tok}
        /\ loggedOut' = IF loggedOut = tok THEN NoCredential ELSE loggedOut
        /\ resp' = Resp("LoginJWT", tok, 200, FALSE, u, "")
    /\ UNCHANGED <<others, schema, now, sessions, unswept, nextUUID,
                   writeLock, calls, commitLog>>

\* validateToken of part_001: the keyfunc hands out the key for any method
validateToken(cred) == JwtParse(cred, SecretKey, FALSE)

\* AuthMiddleware.ProtectRoute of part_001 with its extractToken
ProtectRouteJWT(cred) ==
    IF cred.form = "absent"
      THEN Resp("ProtectRouteJWT", cred, 500, FALSE, 0, "Failed to extract token")
    ELSE IF validateToken(cred) # "nil"
      THEN Resp("ProtectRouteJWT", cred, 401, FALSE, 0, validateToken(cred))
    ELSE Resp("ProtectRouteJWT", cred, 200, TRUE, cred.user_id, "nil")

\* the stages ProtectRoute of part_001 takes a request through: extractToken,
\* ValidateToken, context value set
ProtectRouteJWTStates(cred) ==
    IF cred.form = "absent"
      THEN <<"Unauthenticated", "Rejected">>
    ELSE IF validateToken(cred) # "nil"
      THEN <<"Unauthenticated", "TokenExtracted", "Rejected">>
    ELSE <<"Unauthenticated", "TokenExtracted", "SignatureVerified", "Authenticated">>

\* a request to a route of routes/router.go, all behind r.Use(ProtectRoute)
ProtectedRequestJWT(cred) ==
    /\ schema = "migration_001"
    /\ resp' = ProtectRouteJWT(cred)
    /\ UNCHANGED <<others, schema, now, sessions, unswept, nextUUID, tokens,
                   writeLock, calls, commitLog, loggedOut>>

\* AuthHandler.Logout of part_021: redirects to /login and does nothing else
LogoutJWT(cred) ==
    /\ schema = "migration_001"
    /\ LET gate == ProtectRouteJWT(cred) IN
        /\ resp' = [gate EXCEPT !.op = "LogoutJWT",
                                !.status = IF gate.called THEN 303 ELSE gate.status]
        /\ loggedOut' = IF gate.called THEN cred ELSE loggedOut
    /\ UNCHANGED <<others, schema, now, sessions, unswept, nextUUID, tokens,
                   writeLock, calls, commitLog>>

\* ---- handlers/auth.go ("InitDB")

\* Login of handlers/auth.go after the password check: a plain INSERT
LoginCookie(u) ==
    /\ schema = "InitDB"
    /\ nextUUID <= MaxLogins
    /\ LET r == NewSession(u) IN
        /\ sessions' = sessions \cup {r}
        /\ unswept' = unswept \cup {r}
        /\ commitLog' = Append(commitLog, Entry(r))
        /\ resp' = Resp("LoginCookie", [NoCredential EXCEPT !.session_id = r.uuid],
                        303, FALSE, u, "")
    /\ nextUUID' = nextUUID + 1
    /\ UNCHANGED <<others, schema, now, tokens, writeLock, calls, loggedOut>>

\* Logout of handlers/auth.go: DELETE FROM sessions WHERE session_token = cookie
LogoutCookie(c) ==
    /\ schema = "InitDB"
    /\ sessions' = {r \in sessions : r.uuid # c}
    /\ unswept' = {r \in unswept : r.uuid # c}
    /\ resp' = Resp("LogoutCookie", [NoCredential EXCEPT !.session_id = c],
                    303, FALSE, 0, "")
    /\ UNCHANGED <<others, schema, now, nextUUID, tokens, writeLock, calls,
                   commitLog, loggedOut>>

Next ==
    \/ Tick
    \/ \E u \in Users, d \in 0..1 : GenerateToken(u, d)
    \/ \E s \in 0..MaxUUID : DeleteSession(s)
    \/ CleanupExpiredSessions
    \/ \E s \in 0..MaxUUID : ValidateSessionCall(s)
    \/ \E cred \in Credentials : ProtectedRequest(cred)
    \/ \E cred \in tokens : Logout(cred)
    \/ \E u \in Users : CreateSessionUpsert(u)
    \/ \E u \in Users : InvalidateSession(u)
    \/ \E u \in Users : LoginJWT(u)
    \/ \E cred \in Credentials : ProtectedRequestJWT(cred)
    \/ \E cred \in tokens : LogoutJWT(cred)
    \/ \E u \in Users : LoginCookie(u)
    \/ \E c \in UUIDs : LogoutCookie(c)

Spec == Init /\ [][Next]_vars

\* ---- SessionRepository.CreateSession of repository/session_repository.go,
\* ---- statement by statement, for concurrent callers

Finished == {"idle", "created", "failed", "lost"}

\* identifiers still to be drawn by calls that have begun but not yet inserted
Reserved == Cardinality({p \in Calls : calls[p].pc \in {"begun", "deleted"}})

\* the userID check and r.conn.Begin(): a deferred transaction, no lock yet
Begin(p, u) ==
    /\ calls[p].pc \in Finished
    /\ nextUUID + Reserved <= MaxUUID
    /\ calls' = [calls EXCEPT ![p] = [pc |-> "begun", user |-> u, deleted |-> {}, session |-> NoSession]]
    /\ UNCHANGED <<others, schema, now, sessions, unswept, nextUUID, tokens,
                   resp, writeLock, commitLog, loggedOut>>

\* a store that lets every writer in at once
LockFreeAlways(p) == TRUE

\* may the transaction's first write take SQLite's write lock?
LockFree(p) == writeLock = 0

\* tx.Exec("DELETE FROM sessions WHERE user_id = ?"): the first write of the
\* transaction takes the database's write lock, held until commit or rollback
DeleteOld(p) ==
    /\ calls[p].pc = "begun"
    /\ LockFree(p)
    /\ writeLock' = p
    /\ calls' = [calls EXCEPT ![p].pc = "deleted",
                              ![p].deleted = UserRows(sessions, calls[p].user)]
    /\ UNCHANGED <<others, schema, now, sessions, unswept, nextUUID, tokens,
                   resp, commitLog, loggedOut>>

\* the DELETE meets another writer's lock until the busy timeout runs out:
\* "database is locked", err is set, the deferred func rolls back
DeleteBusy(p) ==
    /\ calls[p].pc = "begun"
    /\ writeLock \notin {0, p}
    /\ calls' = [calls EXCEPT ![p].pc = "failed"]
    /\ UNCHANGED <<others, schema, now, sessions, unswept, nextUUID, tokens,
                   resp, writeLock, commitLog, loggedOut>>

\* session := models.NewSession(userID); tx.Exec(INSERT ...)
InsertNew(p) ==
    /\ calls[p].pc = "deleted"
    /\ calls' = [calls EXCEPT ![p].pc = "inserted",
                              ![p].session = NewSession(calls[p].user)]
    /\ nextUUID' = nextUUID + 1
    /\ UNCHANGED <<others, schema, now, sessions, unswept, tokens, resp,
                   writeLock, commitLog, loggedOut>>

\* return session, nil: the deferred func commits, the rows the DELETE removed
\* go, the inserted row arrives, and the lock is released
Commit(p) ==
    /\ calls[p].pc = "inserted"
    /\ LET r == calls[p].session IN
        /\ sessions' = (sessions \ calls[p].deleted) \cup {r}
        /\ unswept' = ReplaceSession(unswept, r)
        /\ commitLog' = Append(commitLog, Entry(r))
    /\ writeLock' = IF writeLock = p THEN 0 ELSE writeLock
    /\ calls' = [calls EXCEPT ![p].pc = "created"]
    /\ resp' = NoResp
    /\ UNCHANGED <<others, schema, now, nextUUID, tokens, loggedOut>>

InitTx == Init /\ schema = "part_003"

NextTx ==
    \/ Tick
    \/ \E p \in Calls, u \in Users : Begin(p, u)
    \/ \E p \in Calls : DeleteOld(p)
    \/ \E p \in Calls : DeleteBusy(p)
    \/ \E p \in Calls : InsertNew(p)
    \/ \E p \in Calls : Commit(p)

SpecTx == InitTx /\ [][NextTx]_vars

\* ---- the same transaction when one of its steps fails

\* a store where the DELETE takes effect at once, outside any transaction
AutoCommitted(p) == sessions \ calls[p].deleted

\* the table after tx.Rollback(): what the transaction wrote is dropped
RolledBack(p) == sessions

\* r.conn.Begin() returns an error: return nil, err
BeginFails(p, u) ==
    /\ calls[p].pc \in Finished
    /\ calls' = [calls EXCEPT ![p] = [IdleCall EXCEPT !.pc = "failed", !.user = u]]
    /\ UNCHANGED <<others, schema, now, sessions, unswept, nextUUID, tokens, resp,
                   writeLock, commitLog, loggedOut>>

\* the DELETE or the INSERT returns an error: err is set and the deferred
\* func calls tx.Rollback()
StatementFails(p) ==
    /\ calls[p].pc \in {"begun", "deleted"}
    /\ calls[p].pc = "begun" => LockFree(p)
    /\ calls' = [calls EXCEPT ![p].pc = "failed",
                              ![p].deleted = IF calls[p].pc = "begun"
                                               THEN UserRows(sessions, calls[p].user)
                                               ELSE calls[p].deleted]
    /\ sessions' = RolledBack(p)
    /\ unswept' = unswept
    /\ writeLock' = IF writeLock = p THEN 0 ELSE writeLock
    /\ resp' = NoResp
    /\ UNCHANGED <<others, schema, now, nextUUID, tokens, commitLog, loggedOut>>

\* tx.Commit() returns an error, which the deferred func drops: the driver
\* rolls the transaction back and CreateSession returns session, nil
CommitFails(p) ==
    /\ calls[p].pc = "inserted"
    /\ calls' = [calls EXCEPT ![p].pc = "lost"]
    /\ sessions' = RolledBack(p)
    /\ unswept' = unswept
    /\ writeLock' = IF writeLock = p THEN 0 ELSE writeLock
    /\ resp' = NoResp
    /\ UNCHANGED <<others, schema, now, nextUUID, tokens, commitLog, loggedOut>>

NextTxFault ==
    \/ NextTx
    \/ \E p \in Calls, u \in Users : BeginFails(p, u)
    \/ \E p \in Calls : StatementFails(p)
    \/ \E p \in Calls : CommitFails(p)
    \/ \E s \in 0..MaxUUID : ValidateSessionCall(s)

SpecTxFault == InitTx /\ [][NextTxFault]_vars

\* the same callers with the sweep, lookups and deletes running in between
NextSweep ==
    \/ NextTx
    \/ CleanupExpiredSessions
    \/ \E s \in UUIDs : DeleteSession(s)
    \/ \E s \in 0..MaxUUID : ValidateSessionCall(s)

SpecSweep == InitTx /\ [][NextSweep]_vars

\* ---- the gate of middleware/auth.go while the database comes and goes

\* the connection to the database is lost
StoreFails ==
    /\ ~storeDown
    /\ storeDown' = TRUE
    /\ resp' = NoResp
    /\ UNCHANGED <<schema, now, sessions, unswept, nextUUID, tokens, writeLock,
                   calls, commitLog, loggedOut, reqs, userVars, webVars>>

\* the connection is back
StoreRecovers ==
    /\ storeDown
    /\ storeDown' = FALSE
    /\ resp' = NoResp
    /\ UNCHANGED <<schema, now, sessions, unswept, nextUUID, tokens, writeLock,
                   calls, commitLog, loggedOut, reqs, userVars, webVars>>

\* logins need the store; requests and lookups are also served without it
NextFault ==
    \/ Tick
    \/ StoreFails
    \/ StoreRecovers
    \/ ~storeDown /\ \E u \in Users, d \in 0..1 : GenerateToken(u, d)
    \/ \E s \in 0..MaxUUID : ValidateSessionCall(s)
    \/ \E cred \in Credentials : ProtectedRequest(cred)

SpecFault == InitTx /\ [][NextFault]_vars

\* ---- requests handled concurrently, each in its own goroutine

\* AuthMiddleware.Authenticate of middleware/auth.go: without a header the
\* request goes on as anonymous, else the checks of ProtectRoute
Authenticate(cred) ==
    IF cred.form = "absent"
      THEN Resp("Authenticate", cred, 200, TRUE, 0, "nil")
      ELSE [ProtectRoute(cred) EXCEPT !.op = "Authenticate"]

\* the gates a route can be wrapped in
Gates ==
    IF schema = "part_003" THEN {"Authenticate", "ProtectRoute"}
                           ELSE {"ProtectRouteJWT"}

GateResult(gate, cred) ==
    IF gate = "Authenticate" THEN Authenticate(cred)
    ELSE IF gate = "ProtectRoute" THEN ProtectRoute(cred)
    ELSE ProtectRouteJWT(cred)

\* a context that always carries an identity
GetUserIDAssumed(ctx) == Identity(ctx, TRUE)

\* an accessor that looks at the context of the first request in flight
GetUserIDFromFirstContext(ctx) ==
    IF reqs[1].ctx = 0 THEN Identity(0, FALSE) ELSE Identity(reqs[1].ctx, TRUE)

\* GetUserIDFromContext: the value under the key "user_id" (UserClaimsKey in
\* part_001) of the context it is handed
GetUserIDFromContext(ctx) ==
    IF ctx = 0 THEN Identity(0, FALSE) ELSE Identity(ctx, TRUE)

\* the server accepts a request and starts its goroutine
Arrive(p, gate, cred) ==
    /\ reqs[p].pc \in {"idle", "done", "rejected"}
    /\ gate \in Gates
    /\ reqs' = [reqs EXCEPT ![p] = [IdleReq EXCEPT !.pc = "arrived", !.gate = gate,
                                                   !.cred = cred]]
    /\ UNCHANGED <<webVars, userVars, storeDown, schema, now, sessions, unswept, nextUUID, tokens,
                   resp, writeLock, calls, commitLog, loggedOut>>

\* the gate runs: http.Error and return, or context.WithValue(r.Context(),
\* key, id) and next.ServeHTTP(w, r.WithContext(ctx))
PassGate(p) ==
    /\ reqs[p].pc = "arrived"
    /\ LET res == GateResult(reqs[p].gate, reqs[p].cred) IN
        reqs' = [reqs EXCEPT ![p].pc = IF res.called THEN "handler" ELSE "rejected",
                             ![p].ctx = IF res.called THEN res.user ELSE 0]
    /\ UNCHANGED <<webVars, userVars, storeDown, schema, now, sessions, unswept, nextUUID, tokens,
                   resp, writeLock, calls, commitLog, loggedOut>>

\* the handler calls GetUserIDFromContext(r.Context())
HandlerReads(p) ==
    /\ reqs[p].pc = "handler"
    /\ reqs' = [reqs EXCEPT ![p].pc = "done",
                             ![p].seen = GetUserIDFromContext(reqs[p].ctx)]
    /\ UNCHANGED <<webVars, userVars, storeDown, schema, now, sessions, unswept, nextUUID, tokens,
                   resp, writeLock, calls, commitLog, loggedOut>>

InitReq == Init /\ schema \in {"part_003", "migration_001"}

NextReq ==
    \/ Tick
    \/ \E u \in Users : GenerateToken(u, 0)
    \/ \E u \in Users : LoginJWT(u)
    \/ \E p \in Calls, gate \in Gates, cred \in tokens \cup {NoCredential, Garbage} :
          Arrive(p, gate, cred)
    \/ \E p \in Calls : PassGate(p)
    \/ \E p \in Calls : HandlerReads(p)

SpecReq == InitReq /\ [][NextReq]_vars

\* ------------------------------------------------------------ histories
Committed == {commitLog[i].uuid : i \in DOMAIN commitLog}

\* identifiers after which a newer create for the same user was committed
Superseded ==
    {commitLog[i].uuid : i \in {k \in DOMAIN commitLog :
        \E j \in DOMAIN commitLog : j > k /\ commitLog[j].user_id = commitLog[k].user_id}}

\* the identifier written by the last committed create for u, 0 if none
LastCommitted(u) ==
    LET mine == {i \in DOMAIN commitLog : commitLog[i].user_id = u}
    IN  IF mine = {} THEN 0
        ELSE commitLog[CHOOSE i \in mine : \A j \in mine : j <= i].uuid

\* ============================================================ properties

\* C1: in every reachable state each user owns at most one session row.
C1_AtMostOneSessionPerUser ==
    \A u \in Users : Cardinality(UserRows(sessions, u)) <= 1

\* C2: once all of several concurrent CreateSession calls have finished, every
\* user some call committed a session for owns exactly one row, and it is the
\* row written by the create that committed last.
C2_ConcurrentCreatesLeaveOne ==
    (\A p \in Calls : calls[p].pc \in Finished) =>
        \A u \in Users :
            LastCommitted(u) # 0 =>
                /\ Cardinality(UserRows(sessions, u)) = 1
                /\ \A r \in UserRows(sessions, u) : r.uuid = LastCommitted(u)

\* two calls for one user ran with their statements interleaved, both have
\* returned, and the later one committed
C2_Witness ==
    /\ \A p \in Calls : calls[p].pc \in {"created", "failed"}
    /\ \E u \in Users :
        /\ \A p \in Calls : calls[p].user = u
        /\ Cardinality({i \in DOMAIN commitLog : commitLog[i].user_id = u}) >= 2
        /\ \E r \in sessions : r.uuid = LastCommitted(u)

\* a create has just returned its session
JustCreated == resp.op \in {"GenerateToken", "CreateSession"}

\* C3: after two creates for one user in sequence exactly one row exists for the
\* user, the first identifier no longer validates and the second one does.
C3_SecondCreateReplacesFirst ==
    schema \in {"part_003", "migration_001"} =>
        /\ \A s \in Superseded : ValidateSession(s) = ErrInvalidSession
        /\ (JustCreated /\ Len(commitLog) >= 2) =>
              /\ Cardinality(UserRows(sessions, resp.user)) = 1
              /\ ValidateSession(resp.cred.session_id).ok
              /\ ValidateSession(resp.cred.session_id).session.user_id = resp.user

\* the second create for a user has just returned
C3_Witness ==
    /\ JustCreated
    /\ \E s \in Superseded : \E i \in DOMAIN commitLog :
          commitLog[i].uuid = s /\ commitLog[i].user_id = resp.user
    /\ ValidateSession(resp.cred.session_id).ok

\* the requests that went through an Auth Gate
Gated == resp.op \in {"ProtectRoute", "ProtectRouteJWT", "Logout", "LogoutJWT"}

\* the session a token refers to is in the table and unexpired: the row with
\* the token's session_id, or, for a token that names no session, the row the
\* table keeps for the token's user
LiveSessionFor(cred) ==
    \E r \in sessions :
        /\ r.expires_at > now
        /\ IF cred.session_id # 0 THEN r.uuid = cred.session_id
                                  ELSE r.user_id = cred.user_id

\* C4: the gate never invokes the downstream handler for a token whose session
\* is gone from the table or has expired.
C4_GateRequiresLiveSession ==
    (Gated /\ resp.called) => LiveSessionFor(resp.cred)

\* t was received before another token of the same user: by commit order of
\* their sessions, or by expiry for tokens that name no session
StaleToken(t) ==
    /\ t \in tokens
    /\ \E t2 \in tokens :
        /\ t2.user_id = t.user_id
        /\ IF t.session_id # 0
             THEN \E i, j \in DOMAIN commitLog :
                     /\ i < j
                     /\ commitLog[i].uuid = t.session_id
                     /\ commitLog[j].uuid = t2.session_id
             ELSE t2.exp > t.exp

\* C5: after login (T1) and login again (T2), a protected request with T1 is
\* answered 401 and one with T2 is let through.
C5_OldTokenRejectedNewAccepted ==
    resp.op \in {"ProtectRoute", "ProtectRouteJWT"} =>
        /\ StaleToken(resp.cred) => (resp.status = 401 /\ ~resp.called)
        /\ (/\ resp.cred \in tokens
            /\ ~StaleToken(resp.cred)
            /\ \E t \in tokens : StaleToken(t) /\ t.user_id = resp.cred.user_id
            /\ ExpiresAtOK(resp.cred)
            /\ LiveSessionFor(resp.cred))
              => (resp.status = 200 /\ resp.called)

\* C6: after login and logout, a protected request carrying the same token is
\* answered 401.
C6_TokenRejectedAfterLogout ==
    (/\ resp.op \in {"ProtectRoute", "ProtectRouteJWT"}
     /\ loggedOut # NoCredential
     /\ resp.cred = loggedOut)
        => (resp.status = 401 /\ ~resp.called)

\* C7: a protected request carrying an issued token, made strictly before the
\* expiry of the token's session while that session is still the user's row,
\* is accepted with the token's user as identity.
C7_TokenAcceptedWhileSessionLive ==
    (/\ resp.op = "ProtectRoute"
     /\ resp.cred \in tokens
     /\ \E r \in sessions : /\ r.uuid = resp.cred.session_id
                            /\ r.user_id = resp.cred.user_id
                            /\ now < r.expires_at)
        => (resp.called /\ resp.user = resp.cred.user_id)

\* C8: a token whose expiry second has been reached is rejected by the gate
\* with no grace window, and a correctly signed one fails with the expired
\* error kind.
C8_ExpiredTokenRejected ==
    (/\ Gated
     /\ resp.cred.form = "jwt"
     /\ now >= resp.cred.exp * TicksPerSec)
        => /\ ~resp.called
           /\ resp.status = 401
           /\ resp.user = 0
           /\ SignatureOK(resp.cred, SecretKey) => resp.err = "ErrTokenExpired"

C8_Witness ==
    /\ resp.op \in {"ProtectRoute", "ProtectRouteJWT"}
    /\ resp.cred \in tokens
    /\ now = resp.cred.exp * TicksPerSec
    /\ resp.status = 401
    /\ resp.err = "ErrTokenExpired"

\* the signature segment is not the one the server computes for the token's
\* header and payload
AlteredSignature(cred) ==
    /\ cred.form = "jwt"
    /\ cred.sig # EncodeSegment(HS256(SecretKey,
                      SigningInput(cred.alg, cred.user_id, cred.session_id, cred.exp)))

\* C9: a token whose signature segment differs from the server's signature
\* of its payload is rejected with the signature-invalid error kind and no
\* identity reaches the handler.
C9_AlteredSignatureRejected ==
    (Gated /\ AlteredSignature(resp.cred))
        => /\ ~resp.called
           /\ resp.user = 0
           /\ resp.err = "ErrTokenSignatureInvalid"

\* the identifiers validateSession has no live session for
NeverExisted(s) == s \notin Committed
ExpiredSession(s) == \E r \in sessions : r.uuid = s /\ r.expires_at <= now

C11_SweepInvisible ==
    /\ \A s \in UUIDs : ValidateSession(s) = ValidateSessionIn(unswept, s)
    /\ sessions \subseteq unswept
    /\ unswept \ sessions \subseteq Expired(unswept)
    /\ resp.op = "CleanupExpiredSessions" => Expired(sessions) = {}
    /\ (resp.op = "ValidateSession" /\ resp.cred.session_id # 0) =>
          resp.err = ValidateSessionIn(unswept, resp.cred.session_id).err

\* the sweep has just removed a row while a create was in flight
C11_Witness ==
    /\ resp.op = "CleanupExpiredSessions"
    /\ unswept \ sessions # {}
    /\ \E p \in Calls : calls[p].pc = "begun"

\* the rows with identifier s
RowsOf(S, s) == {r \in S : r.uuid = s}

\* C12: invalidating a user's session returns no error, leaves the user with
\* no row and every other row as it was; for a user with no session (also on
\* a repeated call) the store does not change.
C12_InvalidateIdempotent ==
    [][/\ resp'.op = "InvalidateSession" =>
            /\ resp'.err = ""
            /\ UserRows(sessions', resp'.user) = {}
            /\ sessions' = sessions \ UserRows(sessions, resp'.user)
            /\ UserRows(sessions, resp'.user) = {} => sessions' = sessions
       /\ (resp'.op = "DeleteSession" /\ resp'.cred.session_id \in UUIDs) =>
            /\ resp'.err = ""
            /\ RowsOf(sessions', resp'.cred.session_id) = {}
            /\ sessions' = sessions \ RowsOf(sessions, resp'.cred.session_id)
            /\ \A r \in RowsOf(sessions, resp'.cred.session_id) :
                  UserRows(sessions', r.user_id) = {}
            /\ RowsOf(sessions, resp'.cred.session_id) = {} => sessions' = sessions
      ]_vars

\* a user who never had a session has just been invalidated, without error,
\* while another user's row stays in the table
C12_Witness ==
    /\ resp.op = "InvalidateSession"
    /\ resp.err = ""
    /\ LastCommitted(resp.user) = 0
    /\ sessions # {}

\* the request passed the token checks and went on to confirm its session
ReachedSessionCheck(cred) ==
    /\ cred.form = "jwt"
    /\ JwtParse(cred, SecretKey, TRUE) = "nil"
    /\ cred.user_id # 0
    /\ cred.session_id # 0

\* C13: a request whose session confirmation meets a failing store is
\* answered with a 5xx status, never with the 401 of an invalid session.
C13_StoreFailureIs5xx ==
    (/\ resp.op = "ProtectRoute"
     /\ storeDown
     /\ ReachedSessionCheck(resp.cred))
        => (resp.status >= 500 /\ resp.status # 401)

\* the credential is missing or fails one of the gate's checks
FailsSomeCheck(cred) ==
    \/ cred.form # "jwt"
    \/ ~SignatureOK(cred, SecretKey)
    \/ ~ExpiresAtOK(cred)
    \/ ~LiveSessionFor(cred)

\* C14: a protected request with no credential, or with a token failing the
\* malformed, signature, expiry or session check, is answered 401 and its
\* handler is not invoked.
C14_RejectionsAre401 ==
    (/\ resp.op \in {"ProtectRoute", "ProtectRouteJWT"}
     /\ FailsSomeCheck(resp.cred))
        => (resp.status = 401 /\ ~resp.called)

\* the order of the Auth Gate's stages
GateOrder ==
    <<"Unauthenticated", "TokenExtracted", "SignatureVerified",
      "SessionConfirmed", "Authenticated">>

\* tr follows GateOrder stage by stage, and may end in Rejected
FollowsGateOrder(tr) ==
    /\ Len(tr) >= 1
    /\ \A i \in DOMAIN tr :
         \/ i <= Len(GateOrder) /\ tr[i] = GateOrder[i]
         \/ i = Len(tr) /\ i > 1 /\ tr[i] = "Rejected"

\* the stages the request of the last step went through
StatesOfLastRequest ==
    IF resp.op = "ProtectRoute" THEN ProtectRouteStates(resp.cred)
    ELSE ProtectRouteJWTStates(resp.cred)

\* C15: a request passes the gate's stages strictly in order, its handler is
\* invoked only from Authenticated, after SessionConfirmed, and a rejected
\* request never reaches its handler.
C15_GateStagesInOrder ==
    resp.op \in {"ProtectRoute", "ProtectRouteJWT"} =>
        /\ FollowsGateOrder(StatesOfLastRequest)
        /\ resp.called <=> StatesOfLastRequest[Len(StatesOfLastRequest)] = "Authenticated"
        /\ resp.called => StatesOfLastRequest = GateOrder

\* C16: the identity a handler reads from its request's context is fixed by
\* that request's own credential, whatever the other requests in flight carry.
C16_IdentityFromOwnCredential ==
    \A p \in Calls :
        /\ reqs[p].pc = "handler" => reqs[p].ctx = reqs[p].cred.user_id
        /\ reqs[p].pc = "done" =>
              reqs[p].seen = IF reqs[p].cred.form = "absent"
                               THEN Identity(0, FALSE)
                               ELSE Identity(reqs[p].cred.user_id, TRUE)

\* the second request has read its own identity while the first, carrying
\* another user's token, is still in its handler
C16_Witness ==
    /\ reqs[2].pc = "done"
    /\ reqs[1].pc = "handler"
    /\ reqs[1].ctx # 0
    /\ reqs[2].seen.ok
    /\ reqs[2].seen.id # reqs[1].ctx

\* C17: a token is issued with the expiry of the session it references, and
\* no token is unexpired while its session's expiry has been reached.
C17_TokenExpiryEqualsSession ==
    /\ resp.op = "GenerateToken" =>
          \E r \in sessions : /\ r.uuid = resp.cred.session_id
                              /\ resp.cred.exp * TicksPerSec = r.expires_at
    /\ \A tok \in tokens : \A r \in unswept :
          r.uuid = tok.session_id => ~(ExpiresAtOK(tok) /\ r.expires_at <= now)

\* C18: whatever step of a create fails, the store stays as the last commit
\* left it: at every moment each user's rows are exactly the row of the last
\* committed create for that user, which validates until it expires, so no
\* state shows the old row gone without the new one, or both together.
C18_CreateIsAtomic ==
    /\ \A u \in Users :
          UserRows(sessions, u) = {r \in sessions : r.uuid = LastCommitted(u)}
    /\ \A u \in Users : LastCommitted(u) # 0 =>
          /\ Cardinality(UserRows(sessions, u)) = 1
          /\ \A r \in UserRows(sessions, u) :
                now < r.expires_at =>
                    /\ ValidateSession(r.uuid).ok
                    /\ ValidateSession(r.uuid).session = r
    /\ \A p \in Calls : calls[p].pc \in {"failed", "lost"} =>
          \A r \in calls[p].deleted :
              r.uuid = LastCommitted(r.user_id) => r \in sessions
    /\ (resp.op = "ValidateSession" /\ resp.cred.session_id # 0) =>
          (resp.err = "" <=>
              \E r \in sessions : /\ r.uuid = resp.cred.session_id
                                  /\ r.uuid = LastCommitted(r.user_id)
                                  /\ now < r.expires_at)

\* a create for a user with a session failed after its DELETE had run, and
\* the lookup made afterwards still finds the user's earlier session
C18_Witness ==
    /\ \E p \in Calls :
          /\ calls[p].pc \in {"failed", "lost"}
          /\ calls[p].deleted # {}
          /\ \E r \in calls[p].deleted :
                /\ r \in sessions
                /\ resp.op = "ValidateSession"
                /\ resp.cred.session_id = r.uuid
                /\ resp.err = ""

\* ------------------------------------------------------- the users table
\* the two user repositories of the tree
UserRepos == {"user_repository.go", "part_011"}

\* the part of a password the Blowfish key schedule of bcrypt consumes: its
\* first 72 bytes
BlowfishKey(password) ==
    IF Len(password) <= BcryptMaxLen THEN password
    ELSE SubSeq(password, 1, BcryptMaxLen)

\* bcrypt.GenerateFromPassword: a salted verifier of the password
GenerateFromPassword(password, salt) ==
    [kind |-> "bcrypt", of |-> BlowfishKey(password), salt |-> salt]

\* bcrypt.CompareHashAndPassword
CompareHashAndPassword(hashed, password) ==
    hashed.kind = "bcrypt" /\ hashed.of = BlowfishKey(password)

\* User.Validate: 0 stands for an empty or malformed field
Validate(user) ==
    IF user.username = 0 THEN "username is required"
    ELSE IF user.email = 0 THEN "email is required"
    ELSE IF user.password.of = <<>> THEN "password is required"
    ELSE ""

\* a table without the UNIQUE constraints
Unconstrained(U, row) == ""

\* username TEXT UNIQUE, email TEXT UNIQUE: the constraint a write of row
\* would break against the other rows of U, "" if none
UniqueViolation(U, row) ==
    IF \E o \in U : o.id # row.id /\ o.username = row.username
    THEN "UNIQUE constraint failed: users.username"
    ELSE IF \E o \in U : o.id # row.id /\ o.email = row.email
    THEN "UNIQUE constraint failed: users.email"
    ELSE ""

\* FindByEmail of both repositories
FindByEmail(email) ==
    IF \E row \in users : row.email = email
    THEN [ok |-> TRUE, err |-> "",
          user |-> CHOOSE row \in users : row.email = email]
    ELSE [ok |-> FALSE, err |-> "user not found", user |-> NoUser]

\* UserRepositoryImpl.Authenticate
UserRepositoryImplAuthenticate(email, password) ==
    LET found == FindByEmail(email) IN
    IF ~found.ok
    THEN [ok |-> FALSE, err |-> "invalid credentials", user |-> NoUser]
    ELSE IF ~CompareHashAndPassword(found.user.password, password)
    THEN [ok |-> FALSE, err |-> "invalid credentials", user |-> NoUser]
    ELSE [ok |-> TRUE, err |-> "",
          user |-> [found.user EXCEPT !.password = Empty]]

\* UserRepository.Authenticate of part_011: FindByEmail's error is returned as is
UserRepositoryAuthenticate(email, password) ==
    LET found == FindByEmail(email) IN
    IF ~found.ok
    THEN [ok |-> FALSE, err |-> found.err, user |-> NoUser]
    ELSE IF ~CompareHashAndPassword(found.user.password, password)
    THEN [ok |-> FALSE, err |-> "invalid credentials", user |-> NoUser]
    ELSE [ok |-> TRUE, err |-> "", user |-> found.user]

\* what AuthHandler.Login answers once Authenticate has returned: 401 with
\* "Invalid credentials" for every error; 0 while Login goes on
LoginStatus(res) == IF res.ok THEN 0 ELSE 401

\* a login attempt up to the answer of Authenticate
AuthenticateCall(repo, email, password) ==
    /\ LET res == IF repo = "user_repository.go"
                  THEN UserRepositoryImplAuthenticate(email, password)
                  ELSE UserRepositoryAuthenticate(email, password)
       IN ures' = Result(IF repo = "user_repository.go"
                         THEN "UserRepositoryImpl.Authenticate"
                         ELSE "UserRepository.Authenticate",
                         email, res.ok, res.err, res.user,
                         LoginStatus(res))
    /\ UNCHANGED <<users, nextUserID, creates, passwordOf>>
    /\ UNCHANGED <<webVars, storeDown, reqs, schema, now, sessions, unswept, nextUUID,
                   tokens, resp, writeLock, calls, commitLog, loggedOut>>

\* UserRepositoryImpl.Create up to its SELECT COUNT(*)
CreateCheck(p, username, email, password) ==
    /\ creates[p].pc \in {"idle", "created", "failed"}
    /\ nextUserID <= MaxUserID
    /\ LET user == UserRow(0, username, email, Plain(password))
           invalid == Validate(user)
           count == Cardinality({row \in users : row.email = email})
           err == IF invalid # "" THEN invalid
                  ELSE IF count > 0 THEN "email already exists"
                  ELSE ""
       IN /\ creates' = [creates EXCEPT ![p] =
                            [pc |-> IF err = "" THEN "checked" ELSE "failed",
                             user |-> IF err = "" THEN user
                                      ELSE [user EXCEPT !.password = Empty],
                             err |-> err]]
          /\ ures' = NoResult
    /\ UNCHANGED <<users, nextUserID, passwordOf>>
    /\ UNCHANGED <<webVars, storeDown, reqs, schema, now, sessions, unswept, nextUUID,
                   tokens, resp, writeLock, calls, commitLog, loggedOut>>

\* the rest of UserRepositoryImpl.Create: hash, INSERT, LastInsertId
CreateInsert(p) ==
    /\ creates[p].pc = "checked"
    /\ LET row == [creates[p].user EXCEPT
                      !.id = nextUserID,
                      !.password = GenerateFromPassword(@.of, nextUserID)]
           err == UniqueViolation(users, row)
       IN IF err # ""
          THEN /\ creates' = [creates EXCEPT ![p].pc = "failed", ![p].err = err,
                                 ![p].user.password = Empty]
               /\ ures' = NoResult
               /\ UNCHANGED <<users, nextUserID, passwordOf>>
          ELSE /\ nextUserID <= MaxUserID
               /\ users' = users \cup {row}
               /\ nextUserID' = nextUserID + 1
               /\ passwordOf' = [passwordOf EXCEPT ![nextUserID] =
                                     creates[p].user.password.of]
               /\ creates' = [creates EXCEPT ![p].pc = "created",
                                 ![p].user = [row EXCEPT !.password = Empty]]
               /\ ures' = NoResult
    /\ UNCHANGED <<webVars, storeDown, reqs, schema, now, sessions, unswept, nextUUID,
                   tokens, resp, writeLock, calls, commitLog, loggedOut>>

\* UserRepositoryImpl.Update: UPDATE users SET username, email WHERE id
Update(id, username, email) ==
    /\ LET old == {row \in users : row.id = id}
           new == {[row EXCEPT !.username = username, !.email = email] :
                       row \in old}
           err == IF old = {} THEN ""
                  ELSE UniqueViolation(users,
                           UserRow(id, username, email, Empty))
       IN /\ users' = IF err = "" THEN (users \ old) \cup new ELSE users
          /\ ures' = Result("Update", 0, err = "", err, NoUser, 0)
    /\ UNCHANGED <<nextUserID, creates, passwordOf>>
    /\ UNCHANGED <<webVars, storeDown, reqs, schema, now, sessions, unswept, nextUUID,
                   tokens, resp, writeLock, calls, commitLog, loggedOut>>

\* what DELETE FROM users WHERE id = ? leaves of the sessions table S:
\* part_003 and migration 001 declare FOREIGN KEY (user_id) REFERENCES
\* users(id) ON DELETE CASCADE and switch foreign keys on; InitDB declares the
\* key without ON DELETE and opens the database with foreign keys off
DeleteCascade(S, id) ==
    IF schema \in {"part_003", "migration_001"} THEN S \ UserRows(S, id)
    ELSE S

\* UserRepositoryImpl.Delete; the sessions of the user go with the row where
\* the schema says so
Delete(id) ==
    /\ users' = {row \in users : row.id # id}
    /\ sessions' = DeleteCascade(sessions, id)
    /\ unswept' = DeleteCascade(unswept, id)
    /\ ures' = Result("Delete", 0, TRUE, "", NoUser, 0)
    /\ resp' = NoResp
    /\ UNCHANGED <<nextUserID, creates, passwordOf>>
    /\ UNCHANGED <<webVars, storeDown, reqs, schema, now, nextUUID, tokens,
                   writeLock, calls, commitLog, loggedOut>>

InitUsers == Init /\ schema = "migration_001"

NextUsers ==
    \/ \E p \in Calls, username \in 0..MaxNames, email \in 0..MaxEmails,
          password \in Passwords \cup {<<>>} :
           CreateCheck(p, username, email, password)
    \/ \E p \in Calls : CreateInsert(p)
    \/ \E id \in 1..MaxUserID, username \in Names, email \in Emails :
           Update(id, username, email)
    \/ \E id \in 1..MaxUserID : Delete(id)
    \/ \E repo \in UserRepos, email \in Emails, password \in Attempts :
           AuthenticateCall(repo, email, password)

SpecUsers == InitUsers /\ [][NextUsers]_vars

\* C19: a failed Authenticate gives the same error value, and Login the same
\* 401 answer, whether the email was unknown or the password was wrong
C19_SameFailureOutcome ==
    /\ ures.op \in {"UserRepositoryImpl.Authenticate",
                    "UserRepository.Authenticate"}
    /\ ~ures.ok
    => /\ ures.err = "invalid credentials"
       /\ ures.status = 401

\* no two rows of the users table share an email or a username
UniqueUsers ==
    \A a, b \in users :
        (a.email = b.email \/ a.username = b.username) => a = b

\* a step that ends a Create whose email is already in the table
CreateOfExistingEmail(p) ==
    /\ creates'[p] # creates[p]
    /\ creates'[p].pc \in {"created", "failed"}
    /\ \E row \in users : row.email = creates'[p].user.email

\* C20: whatever Creates, Updates and Deletes have run, concurrent Creates with
\* one email included, no two stored users share an email or a username, and a
\* Create whose email is already stored returns an error and adds no user
C20_UsersStayUnique ==
    /\ []UniqueUsers
    /\ [][\A p \in Calls :
              CreateOfExistingEmail(p) =>
                  /\ creates'[p].pc = "failed"
                  /\ creates'[p].err # ""
                  /\ users' = users]_vars

\* two Creates with one email both passed the SELECT COUNT(*); the INSERT of
\* the second was refused and the table holds the first one's row only
C20_Witness ==
    /\ creates[1].pc = "created"
    /\ creates[2].pc = "failed"
    /\ creates[2].err = "UNIQUE constraint failed: users.email"
    /\ creates[2].user.email = creates[1].user.email
    /\ creates[2].user.username # creates[1].user.username
    /\ Cardinality({row \in users : row.email = creates[1].user.email}) = 1

\* C21: for every stored user, created with password p, Authenticate with the
\* user's email succeeds exactly for p and then returns that user, and the
\* stored value is the bcrypt verifier, not the password
C21_AuthenticateRoundTrip ==
    \A row \in users, q \in Attempts :
        LET res == UserRepositoryImplAuthenticate(row.email, q) IN
        /\ res.ok <=> q = passwordOf[row.id]
        /\ res.ok => res.user.id = row.id
        /\ row.password.kind = "bcrypt"
        /\ row.password # Plain(passwordOf[row.id])

\* ------------------------------------------ accounts and their sessions
\* users register, log in, send requests with the tokens they hold, and are
\* deleted; only a stored user gets past the password check of a login
NextAccount ==
    \/ Tick
    \/ \E p \in Calls, username \in Names, email \in Emails,
          password \in Passwords : CreateCheck(p, username, email, password)
    \/ \E p \in Calls : CreateInsert(p)
    \/ \E id \in 1..MaxUserID : Delete(id)
    \/ \E row \in users, d \in 0..1 : GenerateToken(row.id, d)
    \/ \E row \in users : LoginJWT(row.id)
    \/ \E row \in users : LoginCookie(row.id)
    \/ \E cred \in tokens : ProtectedRequest(cred)
    \/ \E cred \in tokens : ProtectedRequestJWT(cred)

SpecAccount == Init /\ [][NextAccount]_vars

StoredUser(id) == \E row \in users : row.id = id

\* C22: every session row belongs to a stored user, and the Auth Gate lets no
\* token of a deleted user through
C22_SessionsReferenceUsers ==
    /\ \A r \in sessions : StoredUser(r.user_id)
    /\ resp.op \in {"ProtectRoute", "ProtectRouteJWT"} /\ resp.called
           => StoredUser(resp.cred.user_id)

\* ------------------------------------------------------ token extraction
\* the words a header is made of
Words == {"", "Bearer", "Basic", "abc"}

\* Authorization headers: what strings.Split(header, " ") gives; <<"">> is the
\* empty header
Headers == UNION {[1..n -> Words] : n \in 1..MaxParts}

Cookies == {Cookie(FALSE, ""), Cookie(TRUE, ""), Cookie(TRUE, "abc")}

\* AuthMiddleware.extractToken of part_001
extractToken(header, cookie) ==
    IF Len(header) = 2 THEN [token |-> <<header[2]>>, err |-> ""]
    ELSE IF ~cookie.present
    THEN [token |-> <<"">>, err |-> "http: named cookie not present"]
    ELSE [token |-> <<cookie.value>>, err |-> ""]

\* strings.TrimPrefix(authHeader, "Bearer ")
TrimPrefixBearer(header) ==
    IF Len(header) >= 2 /\ header[1] = "Bearer" THEN Tail(header) ELSE header

\* the extraction at the head of ProtectRoute of middleware/auth.go
ExtractFromHeader(header, cookie) ==
    IF header = <<"">>
    THEN [token |-> <<"">>, err |-> "Missing authorization token"]
    ELSE [token |-> TrimPrefixBearer(header), err |-> ""]

Extractors == {"part_001", "middleware/auth.go"}

\* a request reaches a gate, which extracts its token
Extract(impl, header, cookie) ==
    /\ LET res == IF impl = "part_001" THEN extractToken(header, cookie)
                  ELSE ExtractFromHeader(header, cookie)
       IN extracted' = Extraction(impl, header, cookie, res.token, res.err)
    /\ UNCHANGED <<postVars, interactions, reaction, userVars, storeDown, reqs, schema,
                   now, sessions, unswept, nextUUID, tokens, resp, writeLock,
                   calls, commitLog, loggedOut>>

NextExtract ==
    \E impl \in Extractors, header \in Headers, cookie \in Cookies :
        Extract(impl, header, cookie)

SpecExtract == InitTx /\ [][NextExtract]_vars

\* a header of the form 'Bearer <token>'
IsBearer(header) ==
    Len(header) = 2 /\ header[1] = "Bearer" /\ header[2] # ""

\* C23: the token comes from the Authorization header exactly when the header
\* is 'Bearer <token>'; any other header falls back to the cookie named token,
\* and without that cookie the extraction fails and gives no token
C23_ExtractBearerOrCookie ==
    extracted.impl # "none" =>
        IF IsBearer(extracted.header)
        THEN extracted.err = "" /\ extracted.token = <<extracted.header[2]>>
        ELSE IF extracted.cookie.present
        THEN extracted.err = "" /\ extracted.token = <<extracted.cookie.value>>
        ELSE extracted.err # "" /\ extracted.token = <<"">>

\* --------------------------------------------------- likes and dislikes
Entities == 1..MaxEntity

EntityTypes == {"", "post", "comment", "user"}

InteractionTypes == {"like", "dislike"}

\* the columns of a table of the database, {} if the schema has no such table
Columns(table) ==
    IF table = "users" THEN
        IF schema = "part_003"
        THEN {"User_id", "username", "email", "password_hash", "created_at"}
        ELSE IF schema = "migration_001"
        THEN {"id", "username", "email", "password", "created_at", "last_login"}
        ELSE {"id", "email", "username", "password", "created_at"}
    ELSE IF table = "interactions" /\ schema = "part_003"
    THEN {"id", "user_id", "entity_id", "entity_type", "type", "created_at"}
    ELSE IF table = "likes" /\ schema = "migration_001"
    THEN {"id", "user_id", "content_type", "content_id", "is_like", "created_at"}
    ELSE IF table = "reactions" /\ schema = "InitDB"
    THEN {"id", "user_id", "target_type", "target_id", "reaction_type",
          "created_at"}
    ELSE {}

\* the clauses SQLite accepts after each verb
Grammar(verb) ==
    IF verb = "INSERT" THEN {"OR REPLACE", "VALUES", "ON CONFLICT"}
    ELSE {"WHERE"}

\* an SQL statement: its verb, its table, the columns it names, its clauses
Statement(verb, table, columns, clauses) ==
    [verb |-> verb, table |-> table, columns |-> columns, clauses |-> clauses]

\* the error of preparing a statement, "" if it compiles
Prepare(stmt) ==
    IF ~(stmt.clauses \subseteq Grammar(stmt.verb)) THEN "syntax error"
    ELSE IF Columns(stmt.table) = {} THEN "no such table"
    ELSE IF ~(stmt.columns \subseteq Columns(stmt.table)) THEN "no such column"
    ELSE ""

\* the rows of user u on an entity
ReactionsOf(S, u, e, et) ==
    {r \in S : r.user_id = u /\ r.entity_id = e /\ r.entity_type = et}

\* LikeRepository.AddInteraction: INSERT ... ON DUPLICATE KEY UPDATE type = ?
AddInteraction(S, u, e, et, t) ==
    LET err == Prepare(Statement("INSERT", "interactions",
                           {"user_id", "entity_id", "entity_type", "type"},
                           {"VALUES", "ON DUPLICATE KEY UPDATE"}))
    IN IF err # "" THEN [rows |-> S, err |-> err]
       ELSE [rows |-> (S \ ReactionsOf(S, u, e, et))
                          \cup {Interaction(u, e, et, t)},
             err |-> ""]

\* the body of a like or dislike request
Body(json, entity_id, entity_type) ==
    [json |-> json, entity_id |-> entity_id, entity_type |-> entity_type]

Bodies ==
    {Body(FALSE, 0, "")}
        \cup {Body(TRUE, e, et) : e \in 0..MaxEntity, et \in EntityTypes}

\* InteractionHandler.LikeEntity and DislikeEntity; t tells them apart
LikeOrDislike(op, ctx, body, t) ==
    LET id == GetUserIDFromContext(ctx)
        stored == AddInteraction(interactions, id.id, body.entity_id,
                                 body.entity_type, t)
        answer(status, added, err) ==
            Reaction(op, ctx, body.entity_id, body.entity_type, t, status,
                     added, err, 0, 0)
    IN
    IF ~id.ok
    THEN /\ reaction' = answer(401, FALSE, "Unauthorized: Login required")
         /\ UNCHANGED interactions
    ELSE IF ~body.json
    THEN /\ reaction' = answer(400, FALSE, "Invalid request body")
         /\ UNCHANGED interactions
    ELSE IF body.entity_id <= 0 \/ body.entity_type = ""
    THEN /\ reaction' = answer(400, FALSE, "Invalid entity details")
         /\ UNCHANGED interactions
    ELSE IF body.entity_type \notin {"post", "comment"}
    THEN /\ reaction' = answer(400, FALSE, "Invalid entity type")
         /\ UNCHANGED interactions
    ELSE /\ interactions' = stored.rows
         /\ reaction' = IF stored.err # ""
                        THEN answer(500, TRUE, stored.err)
                        ELSE answer(201, TRUE, "")

LikeEntity(ctx, body) ==
    /\ LikeOrDislike("LikeEntity", ctx, body, "like")
    /\ UNCHANGED <<postVars, extracted, userVars, storeDown, reqs, schema, now, sessions,
                   unswept, nextUUID, tokens, resp, writeLock, calls,
                   commitLog, loggedOut>>

DislikeEntity(ctx, body) ==
    /\ LikeOrDislike("DislikeEntity", ctx, body, "dislike")
    /\ UNCHANGED <<postVars, extracted, userVars, storeDown, reqs, schema, now, sessions,
                   unswept, nextUUID, tokens, resp, writeLock, calls,
                   commitLog, loggedOut>>

Opposite(t) == IF t = "like" THEN "dislike" ELSE "like"

\* InteractionRepository.CreatePostInteraction: in one transaction, DELETE the
\* opposite reaction, then INSERT OR REPLACE the new one; an error rolls back
CreatePostInteractionIn(S, u, postID, t) ==
    LET del == Prepare(Statement("DELETE", "interactions",
                           {"user_id", "post_id", "type"}, {"WHERE"}))
        ins == Prepare(Statement("INSERT", "interactions",
                           {"user_id", "post_id", "type", "created_at"},
                           {"OR REPLACE", "VALUES"}))
        kept == {r \in S : ~(r \in ReactionsOf(S, u, postID, "post")
                               /\ r.type = Opposite(t))}
    IN IF del # "" THEN [rows |-> S, err |-> del]
       ELSE IF ins # "" THEN [rows |-> S, err |-> ins]
       ELSE [rows |-> (kept \ ReactionsOf(kept, u, postID, "post"))
                          \cup {Interaction(u, postID, "post", t)},
             err |-> ""]

CreatePostInteraction(u, postID, t) ==
    /\ LET res == CreatePostInteractionIn(interactions, u, postID, t) IN
        /\ interactions' = res.rows
        /\ reaction' = Reaction("CreatePostInteraction", u, postID, "post", t,
                                0, res.err = "", res.err, 0, 0)
    /\ UNCHANGED <<postVars, extracted, userVars, storeDown, reqs, schema, now, sessions,
                   unswept, nextUUID, tokens, resp, writeLock, calls,
                   commitLog, loggedOut>>

\* InteractionRepository.RemovePostInteraction
RemovePostInteraction(u, postID, t) ==
    /\ LET err == Prepare(Statement("DELETE", "interactions",
                              {"user_id", "post_id", "type"}, {"WHERE"}))
       IN /\ interactions' =
                 IF err # "" THEN interactions
                 ELSE {r \in interactions :
                          ~(r \in ReactionsOf(interactions, u, postID, "post")
                              /\ r.type = t)}
          /\ reaction' = Reaction("RemovePostInteraction", u, postID, "post", t,
                                  0, FALSE, err, 0, 0)
    /\ UNCHANGED <<postVars, extracted, userVars, storeDown, reqs, schema, now, sessions,
                   unswept, nextUUID, tokens, resp, writeLock, calls,
                   commitLog, loggedOut>>

\* the rows of one type on a post
CountOf(S, postID, t) ==
    Cardinality({r \in S : r.entity_id = postID /\ r.entity_type = "post"
                              /\ r.type = t})

\* InteractionRepository.GetPostInteractionCounts
GetPostInteractionCounts(postID) ==
    /\ LET err == Prepare(Statement("SELECT", "interactions",
                              {"type", "post_id"}, {"WHERE"}))
       IN reaction' =
              IF err # ""
              THEN Reaction("GetPostInteractionCounts", 0, postID, "post", "",
                            0, FALSE, err, 0, 0)
              ELSE Reaction("GetPostInteractionCounts", 0, postID, "post", "",
                            0, FALSE, "", CountOf(interactions, postID, "like"),
                            CountOf(interactions, postID, "dislike"))
    /\ UNCHANGED <<postVars, interactions, extracted, userVars, storeDown, reqs, schema,
                   now, sessions, unswept, nextUUID, tokens, resp, writeLock,
                   calls, commitLog, loggedOut>>

\* getCurrentUser of handlers/reactions.go: the user whose session_token is
\* the cookie's value, 0 for nil
getCurrentUser(c) ==
    LET err == Prepare(Statement("SELECT", "users",
                           {"id", "username", "session_token"}, {"WHERE"}))
    IN IF c = 0 \/ err # "" THEN 0
       ELSE IF \E r \in sessions : r.uuid = c
       THEN (CHOOSE r \in sessions : r.uuid = c).user_id
       ELSE 0

\* HandleReaction of handlers/reactions.go; targetID 0 is one that
\* strconv.Atoi refuses
HandleReaction(c, targetType, targetID, reactionType) ==
    /\ LET user == getCurrentUser(c)
           del == Prepare(Statement("DELETE", "reactions",
                              {"user_id", "target_type", "target_id"},
                              {"WHERE"}))
           ins == Prepare(Statement("INSERT", "reactions",
                              {"user_id", "target_type", "target_id"},
                              {"WHERE"}))
           kept == interactions
                       \ ReactionsOf(interactions, user, targetID, targetType)
           answer(status, added, err) ==
               Reaction("HandleReaction", user, targetID, targetType,
                        reactionType, status, added, err, 0, 0)
       IN
       IF user = 0
       THEN /\ reaction' = answer(401, FALSE, "Unauthorized")
            /\ UNCHANGED interactions
       ELSE IF targetID = 0
       THEN /\ reaction' = answer(400, FALSE, "Invalid target ID")
            /\ UNCHANGED interactions
       ELSE IF del # ""
       THEN /\ reaction' = answer(500, FALSE, del)
            /\ UNCHANGED interactions
       ELSE IF ins # ""
       THEN /\ reaction' = answer(500, FALSE, ins)
            /\ interactions' = kept
       ELSE /\ reaction' = answer(303, TRUE, "")
            /\ interactions' =
                   kept \cup {Interaction(user, targetID, targetType,
                                          reactionType)}
    /\ UNCHANGED <<postVars, extracted, userVars, storeDown, reqs, schema, now, sessions,
                   unswept, nextUUID, tokens, resp, writeLock, calls,
                   commitLog, loggedOut>>

NextReact ==
    \/ \E ctx \in 0..MaxUsers, body \in Bodies : LikeEntity(ctx, body)
    \/ \E ctx \in 0..MaxUsers, body \in Bodies : DislikeEntity(ctx, body)
    \/ \E u \in Users, postID \in Entities, t \in InteractionTypes :
           CreatePostInteraction(u, postID, t)
    \/ \E u \in Users, postID \in Entities, t \in InteractionTypes :
           RemovePostInteraction(u, postID, t)
    \/ \E postID \in Entities : GetPostInteractionCounts(postID)
    \/ \E c \in 0..MaxUUID, targetType \in {"post", "comment"},
          targetID \in 0..MaxEntity, reactionType \in InteractionTypes :
           HandleReaction(c, targetType, targetID, reactionType)

SpecReact == Init /\ [][NextReact]_vars

C25_ContextIdIsSessionOwner ==
    [][\A p \in Calls :
          /\ reqs[p].pc = "arrived"
          /\ reqs'[p].pc = "handler"
          /\ reqs'[p].gate \in {"Authenticate", "ProtectRoute"}
          /\ reqs'[p].ctx # 0
          => \E r \in sessions :
                /\ r.uuid = reqs[p].cred.session_id
                /\ r.expires_at > now
                /\ r.user_id = reqs'[p].ctx]_vars

\* both users hold a session, and a request of each is with its handler, one
\* through each gate
C25_Witness ==
    /\ reqs[1].pc = "handler" /\ reqs[1].gate = "ProtectRoute"
    /\ reqs[2].pc = "handler" /\ reqs[2].gate = "Authenticate"
    /\ reqs[1].ctx # 0 /\ reqs[2].ctx # 0
    /\ reqs[1].ctx # reqs[2].ctx
    /\ \A u \in Users : UserRows(sessions, u) # {}

\* what CreateSession has returned to its caller once it is over: the session
\* and a nil error after the INSERT, whatever tx.Commit in the deferred
\* function said; nil and the error otherwise
Returned(p) ==
    IF calls[p].pc \in {"created", "lost"}
    THEN [session |-> calls[p].session, err |-> ""]
    ELSE [session |-> NoSession, err |-> "error"]

\* C26: a CreateSession that returns a session and no error has committed the
\* row, so that validating its identifier right afterwards succeeds; a failed
\* commit is not reported as success
C26_ReturnedSessionIsCommitted ==
    [][\A p \in Calls :
          /\ calls[p].pc = "inserted"
          /\ calls'[p].pc \in Finished
          /\ Returned(p)'.err = ""
          => /\ Returned(p)'.session \in sessions'
             /\ ValidateSessionIn(sessions', Returned(p)'.session.uuid).ok]_vars

\* the user whose sessions the operation of this step is about, 0 if the step
\* is none of createSession, invalidateSession, DeleteSession
OperatedUser ==
    IF resp'.op \in {"GenerateToken", "CreateSession", "InvalidateSession"}
    THEN resp'.user
    ELSE IF resp'.op = "DeleteSession"
              /\ \E r \in sessions : r.uuid = resp'.cred.session_id
    THEN (CHOOSE r \in sessions : r.uuid = resp'.cred.session_id).user_id
    ELSE 0

\* the identifiers of user v in table S that validate at time t
ValidFor(S, v, t) == {r.uuid : r \in {x \in UserRows(S, v) : x.expires_at > t}}

\* C27: createSession(u), invalidateSession(u) and DeleteSession of one of u's
\* identifiers leave the rows of every other user as they were, and with them
\* the identifiers that validate for that user
C27_OtherUsersUntouched ==
    [][OperatedUser # 0 =>
          \A v \in Users \ {OperatedUser} :
              /\ UserRows(sessions', v) = UserRows(sessions, v)
              /\ ValidFor(sessions', v, now') = ValidFor(sessions, v, now')]_vars

\* a user has just logged in while another user holds a live session
C27_Witness ==
    /\ resp.op = "GenerateToken"
    /\ \E v \in Users : v # resp.user /\ ValidFor(sessions, v, now) # {}

\* ------------------------------------------------------ the login request
\* a failed login that logs the user of the email out
InvalidatedOnFailure(S, email) ==
    S \ {r \in S : \E row \in users : row.email = email /\ row.id = r.user_id}

\* the sessions table after a login that failed: no statement runs on the
\* paths that answer an error
AfterFailedLogin(S, email) == S

\* validateLoginRequest of handlers/auth_handlers.go and part_021: the error
\* for an empty email or a password that is empty or longer than 72 bytes
validateLoginRequest(email, password) ==
    IF email = 0 THEN "email is required"
    ELSE IF password = <<>> THEN "password is required"
    ELSE IF Len(password) > BcryptMaxLen
    THEN "password must be between 8 and 72 characters"
    ELSE ""

\* the first part of the three Login handlers: the status and error they
\* answer a request with, status 0 if the login goes on to create a session
LoginCheck(email, password) ==
    LET invalid == validateLoginRequest(email, password)
        impl == UserRepositoryImplAuthenticate(email, password)
        repo == UserRepositoryAuthenticate(email, password)
    IN
    IF schema = "part_003" THEN
        IF invalid # "" THEN [status |-> 400, err |-> invalid, user |-> NoUser]
        ELSE [status |-> LoginStatus(impl), err |-> impl.err, user |-> impl.user]
    ELSE IF schema = "migration_001" THEN
        IF invalid # "" THEN [status |-> 303, err |-> invalid, user |-> NoUser]
        ELSE IF ~repo.ok
        THEN [status |-> 303, err |-> "invalid_credentials", user |-> NoUser]
        ELSE [status |-> 0, err |-> "", user |-> repo.user]
    ELSE [status |-> LoginStatus(impl),
          err |-> IF impl.ok THEN "" ELSE "Invalid credentials",
          user |-> impl.user]

\* AuthHandler.Login of handlers/auth_handlers.go and of part_021, Login of
\* handlers/auth.go: a request with an email and a password
Login(email, password, d) ==
    LET check == LoginCheck(email, password) IN
    IF check.status # 0
    THEN /\ sessions' = AfterFailedLogin(sessions, email)
         /\ resp' = Resp("Login", NoCredential, check.status, FALSE,
                         FindByEmail(email).user.id, check.err)
         /\ UNCHANGED <<others, schema, now, unswept, nextUUID, tokens,
                        writeLock, calls, commitLog, loggedOut>>
    ELSE \/ GenerateToken(check.user.id, d)
         \/ d = 0 /\ LoginJWT(check.user.id)
         \/ d = 0 /\ LoginCookie(check.user.id)

NextLogin ==
    \/ Tick
    \/ \E username \in Names, email \in Emails, password \in Passwords :
          username = email /\ CreateCheck(1, username, email, password)
    \/ CreateInsert(1)
    \/ \E email \in 0..MaxEmails, password \in Attempts \cup {<<>>},
          d \in 0..1 : Login(email, password, d)

SpecLogin == Init /\ [][NextLogin]_vars

\* C28: a login that fails, for a request that does not validate, an unknown
\* email or a wrong password, leaves the sessions table as it was, creates no
\* session and hands out no token
C28_FailedLoginChangesNothing ==
    [][resp'.op = "Login" =>
          /\ sessions' = sessions
          /\ tokens' = tokens
          /\ nextUUID' = nextUUID
          /\ resp'.cred = NoCredential]_vars

\* a user with a live session has just failed to log in with a wrong password
C28_Witness ==
    /\ resp.op = "Login"
    /\ resp.err \in {"invalid credentials", "invalid_credentials",
                     "Invalid credentials"}
    /\ resp.user # 0
    /\ \E r \in UserRows(sessions, resp.user) : r.expires_at > now

\* ------------------------------------------------------------ the posts
PostIDs == 1..MaxPosts
Categories == 1..MaxCategories
Titles == 1..MaxTitles
\* the category lists of a request: none, one that does not exist, one, all
CategoryLists == {{}, {0}, {1}, Categories}

\* the schema of the repository tests, SetupTestDB of test_helpers.go
PostSchemas == Schemas \cup {"SetupTestDB"}

\* the columns of the posts table under each schema
PostColumns ==
    IF schema = "SetupTestDB"
    THEN {"id", "user_id", "title", "content", "created_at", "updated_at"}
    ELSE {"id", "user_id", "title", "content", "created_at"}

\* PRAGMA foreign_keys = ON, which the two migrations set
ForeignKeys == schema \in {"part_003", "migration_001"}

\* a row of the posts table; updated_at is -1 for NULL
PostRow(id, user_id, title, content, updated_at) ==
    [id |-> id, user_id |-> user_id, title |-> title, content |-> content,
     updated_at |-> updated_at]

Link(post_id, category_id) == [post_id |-> post_id, category_id |-> category_id]

\* the two tables and the error of the call that worked on them
Tables(P, L, err) == [posts |-> P, post_categories |-> L, err |-> err]

\* a transaction that commits everything it wrote
NoRollback(before, attempted, err) ==
    Tables(attempted.posts, attempted.post_categories, err)

\* tx.Rollback(): the tables as they were when the transaction began
Rollback(before, attempted, err) ==
    Tables(before.posts, before.post_categories, err)

\* INSERT INTO post_categories for each id: the error of the first that fails
InsertLinks(categoryIDs) ==
    IF ForeignKeys /\ ~(categoryIDs \subseteq Categories)
    THEN "FOREIGN KEY constraint failed"
    ELSE ""

\* PostRepository.UpdatePost as one transaction
UpdatePostIn(P, L, post, categoryIDs, userID) ==
    LET before == Tables(P, L, "")
        matched == {r \in P : r.id = post.id /\ r.user_id = userID}
        updated == (P \ matched) \cup
                   {PostRow(r.id, r.user_id, post.title, post.content,
                            post.updated_at) : r \in matched}
        unlinked == {l \in L : l.post_id # post.id}
        linked == unlinked \cup {Link(post.id, c) : c \in categoryIDs}
    IN
    IF "updated_at" \notin PostColumns
    THEN Rollback(before, before, "no such column: updated_at")
    ELSE IF matched = {}
    THEN Rollback(before, before,
                  "no rows updated: post not found or unauthorized")
    ELSE IF InsertLinks(categoryIDs) # ""
    THEN Rollback(before, Tables(updated, unlinked, ""),
                  InsertLinks(categoryIDs))
    ELSE Tables(updated, linked, "")

\* PostRepository.DeletePost as one transaction
DeletePostIn(P, L, id, userID) ==
    LET before == Tables(P, L, "")
        unlinked == {l \in L : l.post_id # id}
        matched == {r \in P : r.id = id /\ r.user_id = userID}
    IN
    IF matched = {}
    THEN Rollback(before, Tables(P, unlinked, ""),
                  "no post found or unauthorized to delete")
    ELSE Tables(P \ matched, unlinked, "")

\* PostRepository.GetByID
GetByID(id) ==
    IF \E r \in posts : r.id = id
    THEN [ok |-> TRUE, post |-> CHOOSE r \in posts : r.id = id]
    ELSE [ok |-> FALSE, post |-> PostRow(0, 0, 0, 0, -1)]

PostsUnchanged ==
    UNCHANGED <<extracted, interactions, reaction, userVars, storeDown, reqs,
                schema, now, sessions, unswept, nextUUID, tokens, resp,
                writeLock, calls, commitLog, loggedOut>>

\* PostRepository.Create
CreatePost(userID, title, content, categoryIDs) ==
    /\ nextPostID <= MaxPosts
    /\ IF InsertLinks(categoryIDs) # ""
       THEN /\ posted' = Posted("Create", userID, 0, 0, InsertLinks(categoryIDs))
            /\ UNCHANGED <<posts, post_categories>>
       ELSE /\ posts' = posts \cup
                        {PostRow(nextPostID, userID, title, content, -1)}
            /\ post_categories' = post_categories \cup
                        {Link(nextPostID, c) : c \in categoryIDs}
            /\ posted' = Posted("Create", userID, nextPostID, 0, "")
    \* AUTOINCREMENT does not hand a rolled back id out again
    /\ nextPostID' = nextPostID + 1
    /\ PostsUnchanged

\* PostRepository.UpdatePost
UpdatePost(id, title, content, categoryIDs, userID) ==
    LET done == UpdatePostIn(posts, post_categories,
                             PostRow(id, userID, title, content, now),
                             categoryIDs, userID)
    IN
    /\ posts' = done.posts
    /\ post_categories' = done.post_categories
    /\ posted' = Posted("UpdatePost", userID, id, 0, done.err)
    /\ UNCHANGED nextPostID
    /\ PostsUnchanged

\* PostRepository.DeletePost
DeletePost(id, userID) ==
    LET done == DeletePostIn(posts, post_categories, id, userID) IN
    /\ posts' = done.posts
    /\ post_categories' = done.post_categories
    /\ posted' = Posted("DeletePost", userID, id, 0, done.err)
    /\ UNCHANGED nextPostID
    /\ PostsUnchanged

\* PostHandler.UpdatePost of part_020; title and content 0 are empty strings
PostHandlerUpdatePost(ctx, id, title, content, categoryID) ==
    LET user == GetUserIDFromContext(ctx)
        found == GetByID(id)
        done == UpdatePostIn(posts, post_categories,
                             PostRow(id, found.post.user_id, title, content,
                                     now),
                             {categoryID}, found.post.user_id)
        answer(status, err) ==
            Posted("PostHandler.UpdatePost", user.id, id, status, err)
        refused(status, err) ==
            /\ posted' = answer(status, err)
            /\ UNCHANGED <<posts, post_categories>>
    IN
    /\ IF ~user.ok THEN refused(401, "Unauthorized")
       ELSE IF title = 0 \/ content = 0
       THEN refused(400, "Title and content are required")
       ELSE IF ~found.ok THEN refused(404, "Post not found")
       ELSE IF found.post.user_id # user.id THEN refused(403, "Unauthorized")
       ELSE /\ posts' = done.posts
            /\ post_categories' = done.post_categories
            /\ posted' = IF done.err # ""
                         THEN answer(500, "Failed to update post")
                         ELSE answer(200, "")
    /\ UNCHANGED nextPostID
    /\ PostsUnchanged

\* PostHandler.DeletePost of part_020
PostHandlerDeletePost(ctx, id) ==
    LET user == GetUserIDFromContext(ctx)
        found == GetByID(id)
        done == DeletePostIn(posts, post_categories, id, user.id)
        answer(status, err) ==
            Posted("PostHandler.DeletePost", user.id, id, status, err)
        refused(status, err) ==
            /\ posted' = answer(status, err)
            /\ UNCHANGED <<posts, post_categories>>
    IN
    /\ IF ~user.ok THEN refused(401, "Unauthorized")
       ELSE IF ~found.ok \/ found.post.user_id # user.id
       THEN refused(403, "Unauthorized or post not found")
       ELSE /\ posts' = done.posts
            /\ post_categories' = done.post_categories
            /\ posted' = IF done.err # ""
                         THEN answer(500, "Failed to delete post")
                         ELSE answer(200, "")
    /\ UNCHANGED nextPostID
    /\ PostsUnchanged

InitPosts == schema \in PostSchemas /\ InitState

NextPosts ==
    \/ \E userID \in Users, categoryIDs \in CategoryLists :
           CreatePost(userID, 1, 1, categoryIDs)
    \/ \E id \in PostIDs, title \in Titles, categoryIDs \in CategoryLists,
          userID \in Users : UpdatePost(id, title, 1, categoryIDs, userID)
    \/ \E id \in PostIDs, userID \in Users : DeletePost(id, userID)
    \/ \E ctx \in 0..MaxUsers, id \in PostIDs, title \in 0..MaxTitles,
          content \in 0..1, categoryID \in 0..MaxCategories :
           PostHandlerUpdatePost(ctx, id, title, content, categoryID)
    \/ \E ctx \in 0..MaxUsers, id \in PostIDs : PostHandlerDeletePost(ctx, id)

SpecPosts == InitPosts /\ [][NextPosts]_vars

\* the post that the last request named exists and belongs to someone else
\* than the requesting user
OtherRequester(P, q) ==
    /\ q.op \in {"UpdatePost", "DeletePost", "PostHandler.UpdatePost",
                 "PostHandler.DeletePost"}
    /\ q.user # 0
    /\ \E r \in P : r.id = q.post /\ r.user_id # q.user

C30_OneReactionPerUser ==
    /\ \A u \in Users, e \in Entities, et \in EntityTypes :
           Cardinality(ReactionsOf(interactions, u, e, et)) <= 1
    /\ reaction.op = "CreatePostInteraction" =>
           ReactionsOf(interactions, reaction.user, reaction.entity_id, "post")
               = {Interaction(reaction.user, reaction.entity_id, "post",
                              reaction.type)}
    /\ reaction.op = "GetPostInteractionCounts" =>
           /\ reaction.err = ""
           /\ reaction.likes = CountOf(interactions, reaction.entity_id, "like")
           /\ reaction.dislikes =
                  CountOf(interactions, reaction.entity_id, "dislike")
====
